---- MODULE Spec2Model ----
(***************************************************************************)
(* Model of src/content-script.js (class PersonioOvertimeAdjuster).        *)
(*                                                                         *)
(* Conventions                                                             *)
(*  - a JavaScript string is a sequence of one-character strings;          *)
(*  - an optional value (undefined / null / absent DOM node) is a sequence *)
(*    of length 0 or 1: <<>> is "absent", <<v>> is "present with value v"; *)
(*  - a JavaScript number is an exact rational [n |-> .., d |-> ..] with   *)
(*    d > 0, in lowest terms; NaN is [n |-> 0, d |-> 0];                   *)
(*  - a calendar date (YYYY-MM-DD) is a day number; the lexicographic      *)
(*    order of ISO date strings is the order of the day numbers.           *)
(***************************************************************************)
EXTENDS Integers, Sequences, FiniteSets, TLC

\* ------------------------------------------------------------------------
\* Optional values
\* ------------------------------------------------------------------------
Undef == <<>>

Def(v) == <<v>>

IsDef(o) == Len(o) = 1

Val(o) == o[1]

\* ------------------------------------------------------------------------
\* Numbers
\* ------------------------------------------------------------------------
NaN == [n |-> 0, d |-> 0]

IsNaN(x) == x.d = 0

AbsInt(i) == IF i < 0 THEN -i ELSE i

RECURSIVE Gcd(_, _)
Gcd(a, b) == IF b = 0 THEN a ELSE Gcd(b, a % b)

\* the rational p/q (q > 0) in lowest terms
Rat(p, q) ==
  [n |-> p \div Gcd(AbsInt(p), q), d |-> q \div Gcd(AbsInt(p), q)]

Num(i) == [n |-> i, d |-> 1]

RSub(x, y) ==
  IF IsNaN(x) \/ IsNaN(y) THEN NaN
  ELSE Rat(x.n * y.d - y.n * x.d, x.d * y.d)

RMul(x, y) ==
  IF IsNaN(x) \/ IsNaN(y) THEN NaN
  ELSE Rat(x.n * y.n, x.d * y.d)

\* x / k for an integer k > 0
RDivInt(x, k) == IF IsNaN(x) THEN NaN ELSE Rat(x.n, x.d * k)

RLess(x, y) == ~IsNaN(x) /\ ~IsNaN(y) /\ x.n * y.d < y.n * x.d

RAbs(x) == IF IsNaN(x) THEN NaN ELSE [n |-> AbsInt(x.n), d |-> x.d]

\* Math.floor and Math.round (round half up) of a rational, as integers
RFloor(x) == x.n \div x.d

RRound(x) == (2 * x.n + x.d) \div (2 * x.d)

\* Math.max(0, x): NaN if x is NaN
RMax0(x) == IF IsNaN(x) THEN NaN ELSE IF x.n < 0 THEN Num(0) ELSE x

\* ------------------------------------------------------------------------
\* Strings
\* ------------------------------------------------------------------------
DigitChars == <<"0", "1", "2", "3", "4", "5", "6", "7", "8", "9">>

IsDigit(c) == \E i \in 1..10 : DigitChars[i] = c

DigitVal(c) == (CHOOSE i \in 1..10 : DigitChars[i] = c) - 1

RECURSIVE NatToStr(_)
NatToStr(k) ==
  IF k < 10 THEN <<DigitChars[k + 1]>>
  ELSE NatToStr(k \div 10) \o <<DigitChars[(k % 10) + 1]>>

RECURSIVE Pow10(_)
Pow10(k) == IF k = 0 THEN 1 ELSE 10 * Pow10(k - 1)

\* length of the run of digits of s that starts at position i
RECURSIVE DigitRun(_, _)
DigitRun(s, i) ==
  IF i <= Len(s) /\ IsDigit(s[i]) THEN 1 + DigitRun(s, i + 1) ELSE 0

\* value of the k digits of s that start at position i
RECURSIVE DigitsVal(_, _, _)
DigitsVal(s, i, k) ==
  IF k = 0 THEN 0
  ELSE 10 * DigitsVal(s, i, k - 1) + DigitVal(s[i + k - 1])

\* length of the run of blanks of s that starts at position i
RECURSIVE SpaceRun(_, _)
SpaceRun(s, i) ==
  IF i <= Len(s) /\ s[i] = " " THEN 1 + SpaceRun(s, i + 1) ELSE 0

\* String.prototype.trim
RECURSIVE TrimRight(_)
TrimRight(s) ==
  IF Len(s) > 0 /\ s[Len(s)] = " " THEN TrimRight(SubSeq(s, 1, Len(s) - 1))
  ELSE s

Trim(s) == TrimRight(SubSeq(s, SpaceRun(s, 1) + 1, Len(s)))

\* value.replace(",", "."): only the first comma is replaced
ReplaceFirstComma(s) ==
  IF \E i \in 1..Len(s) : s[i] = ","
  THEN LET i == CHOOSE j \in 1..Len(s) :
                  s[j] = "," /\ \A k \in 1..(j - 1) : s[k] # ","
       IN  [s EXCEPT ![i] = "."]
  ELSE s

\* parseFloat, the literal known: sign is 1 or -1, the literal has ki
\* integer digits from position p1 and kf fraction digits after the point
ParseDigits(s, sign, p1, ki, kf) ==
  IF ki + kf = 0 THEN NaN
  ELSE Rat(sign * (DigitsVal(s, p1, ki) * Pow10(kf)
                   + DigitsVal(s, p1 + ki + 1, kf)),
           Pow10(kf))

\* parseFloat, the integer digits known: the fraction follows a point
ParseFraction(s, sign, p1, ki) ==
  ParseDigits(s, sign, p1, ki,
              IF p1 + ki <= Len(s) /\ s[p1 + ki] = "."
              THEN DigitRun(s, p1 + ki + 1) ELSE 0)

\* parseFloat from position p0, the first character that is not a blank
ParseSigned(s, p0) ==
  IF p0 <= Len(s) /\ s[p0] = "-"
    THEN ParseFraction(s, -1, p0 + 1, DigitRun(s, p0 + 1))
  ELSE IF p0 <= Len(s) /\ s[p0] = "+"
    THEN ParseFraction(s, 1, p0 + 1, DigitRun(s, p0 + 1))
  ELSE ParseFraction(s, 1, p0, DigitRun(s, p0))

\* parseFloat: leading blanks, optional sign, digits, optional fraction;
\* the longest prefix that is a decimal literal, NaN if there is none
parseFloat(s) == ParseSigned(s, 1 + SpaceRun(s, 1))

\* Number.prototype.toFixed(1)
\* the digits of toFixed(1) for a number of t tenths
FixedTenths(sign, t) ==
  sign \o NatToStr(t \div 10) \o <<".">> \o NatToStr(t % 10)

toFixed1(x) ==
  IF IsNaN(x) THEN <<"N", "a", "N">>
  ELSE FixedTenths(IF x.n < 0 THEN <<"-">> ELSE <<>>,
                   RRound(RMul(RAbs(x), Num(10))))

\* ------------------------------------------------------------------------
\* Overtime text: formatting (formatTimeDisplay) and parsing
\* (storeOriginalValues)
\* ------------------------------------------------------------------------
\* formatTimeDisplay(totalMinutes), totalMinutes a number that is not NaN
\* a rendering that omits no unit
FormatHoursMinutesBoth(sign, hours, minutes) ==
  sign \o NatToStr(hours) \o <<"h", " ">> \o NatToStr(minutes) \o <<"m">>

\* lines 1133-1141 of formatTimeDisplay
FormatHoursMinutes(sign, hours, minutes) ==
  IF hours > 0 /\ minutes > 0
    THEN sign \o NatToStr(hours) \o <<"h", " ">> \o NatToStr(minutes) \o <<"m">>
  ELSE IF hours > 0 THEN sign \o NatToStr(hours) \o <<"h">>
  ELSE IF minutes > 0 THEN sign \o NatToStr(minutes) \o <<"m">>
  ELSE <<"0", "h">>

\* line 1129 of formatTimeDisplay: minutes = Math.round(absoluteMinutes % 60)
FormatMinutes(sign, absoluteMinutes, hours) ==
  FormatHoursMinutes(sign, hours,
                     RRound(RSub(absoluteMinutes, Num(60 * hours))))

formatTimeDisplay(totalMinutes) ==
  FormatMinutes(IF totalMinutes.n < 0 THEN <<"-">> ELSE <<>>,
                RAbs(totalMinutes),
                RFloor(RDivInt(RAbs(totalMinutes), 60)))

\* timeRegex /^(-?)(?:(\d+)h)?\s*(?:(\d+)m)?$/ applied to t: <<>> when it
\* does not match, else <<[neg, hours, minutes]>>
\* (?:(\d+)u)? matches k digits and the unit u at position p of t
HasUnit(t, p, k, u) == k > 0 /\ p + k <= Len(t) /\ t[p + k] = u

\* the position after (?:(\d+)u)? applied at position p of t
AfterUnit(t, p, k, u) == IF HasUnit(t, p, k, u) THEN p + k + 1 ELSE p

\* the value of the group (\d+) of (?:(\d+)u)?, "0" when it did not match
UnitValue(t, p, k, u) == IF HasUnit(t, p, k, u) THEN DigitsVal(t, p, k) ELSE 0

\* timeRegex, the hours at position p1 and the minutes at position p3
MatchTimeAt(t, neg, p1, p3) ==
  IF AfterUnit(t, p3, DigitRun(t, p3), "m") = Len(t) + 1
  THEN <<[neg     |-> neg,
          hours   |-> UnitValue(t, p1, DigitRun(t, p1), "h"),
          minutes |-> UnitValue(t, p3, DigitRun(t, p3), "m")]>>
  ELSE <<>>

\* timeRegex after the sign: the hours at position p1, then \s* from p2
MatchTimeFrom(t, neg, p1, p2) ==
  MatchTimeAt(t, neg, p1, p2 + SpaceRun(t, p2))

MatchTimeSigned(t, neg, p1) ==
  MatchTimeFrom(t, neg, p1, AfterUnit(t, p1, DigitRun(t, p1), "h"))

MatchTimeRegex(t) ==
  IF Len(t) >= 1 /\ t[1] = "-" THEN MatchTimeSigned(t, TRUE, 2)
  ELSE MatchTimeSigned(t, FALSE, 1)

\* does /([+-]?)(\d+):(\d+)/ match t starting exactly at position i ?
FallbackDigits(t, p1, kh) ==
  /\ kh > 0
  /\ p1 + kh <= Len(t)
  /\ t[p1 + kh] = ":"
  /\ DigitRun(t, p1 + kh + 1) > 0

FallbackAt(t, i) ==
  IF t[i] = "+" \/ t[i] = "-" THEN FallbackDigits(t, i + 1, DigitRun(t, i + 1))
  ELSE FallbackDigits(t, i, DigitRun(t, i))

\* fallbackRegex /([+-]?)(\d+):(\d+)/ searched in t (leftmost match)
\* the groups of fallbackRegex: sign, kh hour digits from position p1, the
\* colon, the minute digits
FallbackGroups(t, neg, p1, kh) ==
  <<[neg     |-> neg,
     hours   |-> DigitsVal(t, p1, kh),
     minutes |-> DigitsVal(t, p1 + kh + 1, DigitRun(t, p1 + kh + 1))]>>

\* fallbackRegex matched at position i of t
FallbackMatch(t, i) ==
  IF t[i] = "+" \/ t[i] = "-"
  THEN FallbackGroups(t, t[i] = "-", i + 1, DigitRun(t, i + 1))
  ELSE FallbackGroups(t, FALSE, i, DigitRun(t, i))

MatchFallbackRegex(t) ==
  IF \E i \in 1..Len(t) : FallbackAt(t, i)
  THEN FallbackMatch(t, CHOOSE j \in 1..Len(t) :
                          FallbackAt(t, j) /\ \A k \in 1..(j - 1) : ~FallbackAt(t, k))
  ELSE <<>>

\* storeOriginalValues(overtimeContainer): the pair originalHours,
\* originalMinutes parsed from the widget's textContent
\* a sign applied to the hours only
SignedTimeHoursOnly(m) ==
  IF IsDef(m)
  THEN [hours   |-> IF Val(m).neg THEN -Val(m).hours ELSE Val(m).hours,
        minutes |-> Val(m).minutes]
  ELSE [hours |-> 0, minutes |-> 0]

\* the pair stored for the match m of one of the two expressions
SignedTime(m) ==
  IF IsDef(m)
  THEN [hours   |-> IF Val(m).neg THEN -Val(m).hours ELSE Val(m).hours,
        minutes |-> IF Val(m).neg THEN -Val(m).minutes ELSE Val(m).minutes]
  ELSE [hours |-> 0, minutes |-> 0]

\* the match m1 of timeRegex or, when it failed, that of fallbackRegex
FirstMatch(m1, timeText) ==
  IF IsDef(m1) THEN m1 ELSE MatchFallbackRegex(timeText)

MatchTime(timeText) == FirstMatch(MatchTimeRegex(timeText), timeText)

storeOriginalValues(textContent) == SignedTime(MatchTime(Trim(textContent)))

\* ------------------------------------------------------------------------
\* State
\* ------------------------------------------------------------------------
VARIABLES
  location,        \* location.href, as a page class (see Urls)
  currentUrl,      \* this.currentUrl
  observer,        \* this.observer is connected (non-null)
  originalHours,   \* this.originalHours   (optional integer)
  originalMinutes, \* this.originalMinutes (optional integer)
  workTimePerDayInMinutes, \* this.workTimePerDayInMinutes (optional number)
  widget,          \* the overtime widget of the host page (optional)
  control,         \* the injected input with its buttons (optional, with the
                   \* number of copies in the DOM)
  link,            \* how many containers with the overtime link are in the DOM
  schedule,        \* the weekly-hours widget of the host page (optional)
  rows,            \* the timesheet rows of the host page
  today,           \* the current UTC date
  extractedDaysOff,   \* localStorage[extractedDaysOffKey]   (optional string)
  lastExtractionDate, \* localStorage[lastExtractionDateKey] (optional date)
  timers,          \* a deferred refresh of the re-extract button is pending
  runs,            \* the calls of handleCalendarPage made so far
  dialog,          \* the details dialog / drawer of the calendar page
  opener,          \* window.opener: "none", "open" or "closed"
  windowOpen,      \* this window has not been closed
  posted,          \* the messages posted to the opener, in order
  urlCheckInterval,   \* the interval of this.urlCheckInterval is running
  popstateListeners,  \* the functions registered on window for popstate
  last             \* the handler that ran last, with what it was given

vars == <<location, currentUrl, observer, originalHours, originalMinutes,
          workTimePerDayInMinutes, widget, control, link, schedule, rows,
          today, extractedDaysOff, lastExtractionDate, timers, runs, dialog,
          opener, windowOpen, posted, urlCheckInterval, popstateListeners,
          last>>

\* the program state as one record, so that a handler is a function on it
Cur ==
  [loc |-> location, cur |-> currentUrl, obs |-> observer,
   oh |-> originalHours, om |-> originalMinutes,
   w |-> workTimePerDayInMinutes, wid |-> widget, ctl |-> control,
   link |-> link, sched |-> schedule, rows |-> rows, today |-> today,
   ext |-> extractedDaysOff, date |-> lastExtractionDate, tm |-> timers,
   runs |-> runs, dlg |-> dialog, opener |-> opener, open |-> windowOpen,
   posted |-> posted, ivl |-> urlCheckInterval, pop |-> popstateListeners]

Becomes(s) ==
  /\ location' = s.loc
  /\ currentUrl' = s.cur
  /\ observer' = s.obs
  /\ originalHours' = s.oh
  /\ originalMinutes' = s.om
  /\ workTimePerDayInMinutes' = s.w
  /\ widget' = s.wid
  /\ control' = s.ctl
  /\ link' = s.link
  /\ schedule' = s.sched
  /\ rows' = s.rows
  /\ today' = s.today
  /\ extractedDaysOff' = s.ext
  /\ lastExtractionDate' = s.date
  /\ timers' = s.tm
  /\ runs' = s.runs
  /\ dialog' = s.dlg
  /\ opener' = s.opener
  /\ windowOpen' = s.open
  /\ posted' = s.posted
  /\ urlCheckInterval' = s.ivl
  /\ popstateListeners' = s.pop

Is(s) ==
  /\ location = s.loc
  /\ currentUrl = s.cur
  /\ observer = s.obs
  /\ originalHours = s.oh
  /\ originalMinutes = s.om
  /\ workTimePerDayInMinutes = s.w
  /\ widget = s.wid
  /\ control = s.ctl
  /\ link = s.link
  /\ schedule = s.sched
  /\ rows = s.rows
  /\ today = s.today
  /\ extractedDaysOff = s.ext
  /\ lastExtractionDate = s.date
  /\ timers = s.tm
  /\ runs = s.runs
  /\ dialog = s.dlg
  /\ opener = s.opener
  /\ windowOpen = s.open
  /\ posted = s.posted
  /\ urlCheckInterval = s.ivl
  /\ popstateListeners = s.pop

\* ------------------------------------------------------------------------
\* Program constants
\* ------------------------------------------------------------------------
STANDARD_WORKDAY_MINUTES == 480

\* a re-extract button is "outdated" after more than this many days
OUTDATED_DAYS == 30

\* page classes of location.href
Urls == {"att1", "att2", "ext", "cal", "other"}

\* href.includes(".personio.com/attendance/employee")
isAttendancePage(u) == u \in {"att1", "att2"}

\* href.includes(".personio.com/calendar/me") and
\* href.includes("absenceTypeId=0a405db0-...")
isCalendarExtractionPage(u) == u = "ext"

ZeroStr == <<"0">>

MessageType == "personioCalendarExtraction"

\* ------------------------------------------------------------------------
\* Storage and time-off adjustment
\* ------------------------------------------------------------------------
\* getExtractedDaysOff(): localStorage.getItem(key) || "0"
getExtractedDaysOff(s) ==
  IF IsDef(s.ext) /\ Val(s.ext) # <<>> THEN Val(s.ext) ELSE ZeroStr

\* hasApprovedTimeOffIcon(dayCell): a time-off icon that holds a circle
\* (green or not)
hasApprovedTimeOffIcon(row) == row.icon \in {"green", "circle"}

\* a row test that admits the last-extraction date itself
RowCountsInclusive(row, lastDate, todayDateOnly) ==
  /\ row.time = "date"
  /\ row.day + 1 >= lastDate
  /\ row.day + 1 < todayDateOnly
  /\ row.dayCell
  /\ row.icon \in {"green", "circle"}

\* a row test that does not look for the time-off icon
RowCountsUnmarked(row, lastDate, todayDateOnly) ==
  /\ row.time = "date"
  /\ row.day + 1 > lastDate
  /\ row.day + 1 < todayDateOnly
  /\ row.dayCell

\* the body of the forEach of calculateTimeOffAdjustment: is this row counted
RowCounts(row, lastDate, todayDateOnly) ==
  /\ row.time = "date"
  /\ row.day + 1 > lastDate
  /\ row.day + 1 < todayDateOnly
  /\ row.dayCell
  /\ hasApprovedTimeOffIcon(row)

calculateTimeOffAdjustment(s) ==
  IF ~IsDef(s.date) THEN 0
  ELSE Cardinality({i \in 1..Len(s.rows) :
                      RowCounts(s.rows[i], Val(s.date), s.today)})

\* Math.max(0, parseFloat(extractedValue || "0") - timeOffAdjustment).toFixed(1)
AdjustedValue(extractedValue, timeOffAdjustment) ==
  toFixed1(RMax0(RSub(parseFloat(IF extractedValue = <<>> THEN ZeroStr
                                 ELSE extractedValue),
                      Num(timeOffAdjustment))))

\* the same without Math.max(0, ..)
AdjustedValueUnclamped(extractedValue, timeOffAdjustment) ==
  toFixed1(RSub(parseFloat(extractedValue), Num(timeOffAdjustment)))

\* Math.max(0, parseFloat(extractedValue) - timeOffAdjustment).toFixed(1)
AdjustedValueRaw(extractedValue, timeOffAdjustment) ==
  toFixed1(RMax0(RSub(parseFloat(extractedValue), Num(timeOffAdjustment))))

\* updateReloadButtonBorder: the border / title class of the re-extract button
ReloadBorder(s) ==
  IF ~IsDef(s.date) THEN "never"
  ELSE IF s.today - Val(s.date) > OUTDATED_DAYS THEN "outdated"
  ELSE IF calculateTimeOffAdjustment(s) > 0 THEN "subtracted"
  ELSE "default"

updateReloadButtonBorder(s) ==
  IF IsDef(s.ctl)
  THEN [s EXCEPT !.ctl = Def([Val(s.ctl) EXCEPT !.reload = ReloadBorder(s)])]
  ELSE s

\* updateInputBorderColor(inputElement, userValue, extractedValue)
InputBorder(s, userValue, extractedValue) ==
  IF /\ userValue = AdjustedValue(extractedValue, calculateTimeOffAdjustment(s))
     /\ extractedValue # <<>>
  THEN "green" ELSE "default"

updateInputBorderColor(s, userValue, extractedValue) ==
  [s EXCEPT !.ctl = Def([Val(s.ctl) EXCEPT
                           !.border = InputBorder(s, userValue, extractedValue)])]

\* updateBackButtonVisibility(userValue, extractedValue)
updateBackButtonVisibility(s, userValue, extractedValue) ==
  IF IsDef(s.ctl)
  THEN [s EXCEPT !.ctl = Def([Val(s.ctl) EXCEPT !.back =
          userValue # AdjustedValue(extractedValue,
                                    calculateTimeOffAdjustment(s))])]
  ELSE s

\* ------------------------------------------------------------------------
\* Overtime recomputation
\* ------------------------------------------------------------------------
\* setWorkTimePerDay(): weekly minutes / work days, or the standard day
setWorkTimePerDay(s) ==
  [s EXCEPT !.w =
     IF ~IsDef(s.sched) THEN Def(Num(STANDARD_WORKDAY_MINUTES))
     ELSE IF Val(s.sched).workdays > 0
       THEN Def(Rat(Val(s.sched).weekly, Val(s.sched).workdays))
     ELSE Def(Num(STANDARD_WORKDAY_MINUTES))]

\* isValidNumber(value)
isValidNumber(value) == value # <<>> /\ ~IsNaN(parseFloat(value))

\* lines 1037-1047 of adjustOvertime: the minutes to subtract
ValueToSubtract(inputValue, w) ==
  IF /\ inputValue # <<>>
     /\ inputValue # ZeroStr
     /\ isValidNumber(inputValue)
     /\ IsDef(w)
  THEN RMul(parseFloat(inputValue), Val(w))
  ELSE Num(0)

\* overtimeContainer.textContent
TextContent(wid) ==
  IF IsDef(wid.was)
  THEN wid.text \o <<" ", "(", "w", "a", "s", " ">> \o Val(wid.was) \o <<")">>
  ELSE wid.text

\* applyOvertimeColorCoding
ColorOf(totalMinutes) ==
  IF totalMinutes.n > 0 THEN "green"
  ELSE IF totalMinutes.n < 0 THEN "red"
  ELSE "gray"

\* updateOvertimeDisplay(valueToSubtractInMinutes)
\* lines 1064-1070: the original values, stored first when they are not
OriginalValues(s) ==
  IF ~IsDef(s.oh) \/ ~IsDef(s.om)
  THEN storeOriginalValues(TextContent(Val(s.wid)))
  ELSE [hours |-> Val(s.oh), minutes |-> Val(s.om)]

\* lines 1073-1119: the widget re-rendered from the original values
RenderOvertime(s, original, totalOriginalMinutes, adjustedTotalMinutes, valueToSubtractInMinutes) ==
  [s EXCEPT
     !.oh  = Def(original.hours),
     !.om  = Def(original.minutes),
     !.wid = Def([script |-> TRUE,
                  text   |-> formatTimeDisplay(adjustedTotalMinutes),
                  was    |-> IF valueToSubtractInMinutes.n > 0
                             THEN Def(formatTimeDisplay(totalOriginalMinutes))
                             ELSE Undef,
                  color  |-> ColorOf(adjustedTotalMinutes),
                  adjusted |-> adjustedTotalMinutes])]

\* lines 1073-1075: the two totals
AdjustOriginal(s, original, valueToSubtractInMinutes) ==
  RenderOvertime(s, original,
                 Num(original.hours * 60 + original.minutes),
                 RSub(Num(original.hours * 60 + original.minutes),
                      valueToSubtractInMinutes),
                 valueToSubtractInMinutes)

updateOvertimeDisplay(s, valueToSubtractInMinutes) ==
  IF ~IsDef(s.wid) THEN s
  ELSE AdjustOriginal(s, OriginalValues(s), valueToSubtractInMinutes)

\* adjustOvertime()
\* lines 1031 and 1037-1049 of adjustOvertime, the work time being set
SubtractInputValue(s) ==
  updateOvertimeDisplay(
    s, ValueToSubtract(ReplaceFirstComma(Val(s.ctl).value), s.w))

adjustOvertime(s) ==
  IF ~IsDef(s.ctl) THEN s
  ELSE SubtractInputValue(IF IsDef(s.w) THEN s ELSE setWorkTimePerDay(s))

\* ------------------------------------------------------------------------
\* Injection of the control
\* ------------------------------------------------------------------------
\* createControlElements(): the input seeded from storage, the revert button
\* (createBackButton), the re-extract button (createReloadButton)
\* createBackButton(currentValue, extractedValue): is the button displayed
createBackButton(s, currentValue, extractedValue) ==
  currentValue # AdjustedValue(extractedValue, calculateTimeOffAdjustment(s))

\* lines 541-574 of createControlElements: the elements, the input holding
\* adjustedValue
ControlElements(s, extractedValue, adjustedValue) ==
  [value  |-> adjustedValue,
   border |-> InputBorder(s, adjustedValue, extractedValue),
   back   |-> createBackButton(s, adjustedValue, extractedValue),
   reload |-> ReloadBorder(s),
   copies |-> 1]

createControlElements(s) ==
  ControlElements(s, getExtractedDaysOff(s),
                  AdjustedValue(getExtractedDaysOff(s),
                                calculateTimeOffAdjustment(s)))

\* insertInputElements(linkElement)
\* lines 507-510 of insertInputElements: the initial calculation
InitialCalculation(s) ==
  IF Val(s.ctl).value # <<>> /\ Val(s.ctl).value # ZeroStr
  THEN adjustOvertime(s)
  ELSE s

\* the elements with id subtractTime after one more insertion: ctl describes
\* the first of them in document order (the one getElementById returns) and
\* counts them in copies; a later copy is built from the same storage and the
\* same rows within the same call of createInputField, so it starts with the
\* value of the first
InsertedControl(s) ==
  IF IsDef(s.ctl)
  THEN [Val(s.ctl) EXCEPT !.copies = @ + 1]
  ELSE createControlElements(s)

insertInputElements(s) ==
  InitialCalculation([s EXCEPT !.ctl = Def(InsertedControl(s))])

\* the forEach of createInputField over n containers that hold the overtime
\* link: the control is inserted after its container ("afterend"), never
\* inside it, so container.querySelector("#subtractTime") finds nothing
RECURSIVE InsertEach(_, _)
InsertEach(s, n) ==
  IF n = 0 THEN s ELSE InsertEach(insertInputElements(s), n - 1)

\* createInputField(): a control goes after every container that matches the
\* selector and holds the overtime link
createInputField(s) == InsertEach(s, s.link)

\* stopObservingPage()
stopObservingPage(s) == [s EXCEPT !.obs = FALSE]

\* resetState()
resetState(s) == [s EXCEPT !.oh = Undef, !.om = Undef, !.w = Undef]

\* the assignments of storeOriginalValues to this.originalHours and
\* this.originalMinutes
StoreOriginal(s, parsed) ==
  [s EXCEPT !.oh = Def(parsed.hours), !.om = Def(parsed.minutes)]

\* checkForOvertimeWidget()
checkForOvertimeWidget(s) ==
  IF IsDef(s.wid) /\ ~IsDef(s.ctl)
  THEN stopObservingPage(createInputField(
         StoreOriginal(s, storeOriginalValues(TextContent(Val(s.wid))))))
  ELSE s

\* startObservingPage()
startObservingPage(s) == checkForOvertimeWidget([s EXCEPT !.obs = TRUE])

\* the callback of the attendance observer, run after a mutation of the
\* document while the observer is connected
ObserverCallback(s) == IF s.obs THEN checkForOvertimeWidget(s) ELSE s

\* ------------------------------------------------------------------------
\* Input handlers
\* ------------------------------------------------------------------------
\* lines 926-941 of handleInputChange: the border, the revert button and the
\* re-extract button follow the input value
RefreshControl(s) ==
  updateReloadButtonBorder(
    updateBackButtonVisibility(
      updateInputBorderColor(s, Val(s.ctl).value, getExtractedDaysOff(s)),
      Val(s.ctl).value, getExtractedDaysOff(s)))

\* handleInputChange()
handleInputChange(s) ==
  IF ~IsDef(s.ctl) THEN s
  ELSE RefreshControl(adjustOvertime(s))

\* validateInput(inputElement)
validateInput(s) ==
  IF /\ ReplaceFirstComma(Val(s.ctl).value) # <<>>
     /\ IsNaN(parseFloat(ReplaceFirstComma(Val(s.ctl).value)))
  THEN [s EXCEPT !.ctl = Def([Val(s.ctl) EXCEPT !.border = "invalid"])]
  ELSE updateInputBorderColor(s, ReplaceFirstComma(Val(s.ctl).value),
                              getExtractedDaysOff(s))

\* inputElement.value = value
SetInputValue(s, value) ==
  [s EXCEPT !.ctl = Def([Val(s.ctl) EXCEPT !.value = value])]

\* backButton.style.display = "none"
HideBackButton(s) == [s EXCEPT !.ctl = Def([Val(s.ctl) EXCEPT !.back = FALSE])]

\* a revert that restores the value and does not call adjustOvertime
RestoreValueStale(s, extractedValue, adjustedValue) ==
  updateReloadButtonBorder(
    HideBackButton(
      updateInputBorderColor(SetInputValue(s, adjustedValue),
                             adjustedValue, extractedValue)))

\* lines 666-677 of handleBackButtonClick
RestoreValue(s, extractedValue, adjustedValue) ==
  updateReloadButtonBorder(
    HideBackButton(
      updateInputBorderColor(adjustOvertime(SetInputValue(s, adjustedValue)),
                             adjustedValue, extractedValue)))

\* handleBackButtonClick(inputElement, backButton)
handleBackButtonClick(s) ==
  RestoreValue(s, getExtractedDaysOff(s),
               AdjustedValueRaw(getExtractedDaysOff(s),
                                calculateTimeOffAdjustment(s)))

\* ------------------------------------------------------------------------
\* Extraction-result messages
\* ------------------------------------------------------------------------
\* updateInputWithExtractedValue(inputElement, extractedDays, backButton)
\* a setTimeout whose callback calls updateReloadButtonBorder
DeferBorderRefresh(s) == [s EXCEPT !.tm = TRUE]

\* lines 116-138 of updateInputWithExtractedValue
ShowExtractedValue(s, extractedDays, adjustedValue) ==
  DeferBorderRefresh(
    adjustOvertime(
      updateBackButtonVisibility(
        updateInputBorderColor(SetInputValue(s, adjustedValue),
                               adjustedValue, extractedDays),
        adjustedValue, extractedDays)))

updateInputWithExtractedValue(s, extractedDays) ==
  ShowExtractedValue(s, extractedDays,
                     AdjustedValueRaw(extractedDays,
                                      calculateTimeOffAdjustment(s)))

\* resetReloadButton(reloadButton)
resetReloadButton(s) == updateReloadButtonBorder(s)

\* handleCalendarExtractionResult(extractedDays); extractedDays is optional
\* lines 88-102 of handleCalendarExtractionResult
ShowResult(s, extractedDays) ==
  IF IsDef(extractedDays)
  THEN DeferBorderRefresh(updateInputWithExtractedValue(s, Val(extractedDays)))
  ELSE s

handleCalendarExtractionResult(s, extractedDays) ==
  IF ~IsDef(s.ctl) THEN s
  ELSE ShowResult(resetReloadButton(s), extractedDays)

\* a listener that does not look at the type tag
OnMessageEventAnyType(s, data) ==
  IF IsDef(data)
  THEN handleCalendarExtractionResult(s, Val(data).extractedDays)
  ELSE s

\* the listener of setupMessageListener; data is optional (event.data),
\* a record [type, extractedDays] when present
OnMessageEvent(s, data) ==
  IF IsDef(data) /\ Val(data).type = MessageType
  THEN handleCalendarExtractionResult(s, Val(data).extractedDays)
  ELSE s

\* ------------------------------------------------------------------------
\* Extraction page: the scrape run (handleCalendarPage)
\* ------------------------------------------------------------------------
\* a chain that tries the legacy stack container before the structured blocks
extractCalendarAbsenceDataLegacyFirst(dlg) ==
  IF dlg.stack.n > 0
    THEN Def(RMul(dlg.stack, Num(STANDARD_WORKDAY_MINUTES)))
  ELSE IF dlg.active.n > 0
    THEN Def(RMul(dlg.active, Num(STANDARD_WORKDAY_MINUTES)))
  ELSE IF dlg.structured.n > 0
    THEN Def(RMul(dlg.structured, Num(STANDARD_WORKDAY_MINUTES)))
  ELSE IF dlg.list.n > 0
    THEN Def(RMul(dlg.list, Num(STANDARD_WORKDAY_MINUTES)))
  ELSE Undef

\* extractCalendarAbsenceData(document): the first total of the chain
\* balance-statement block of the active balance tab, first balance-statement
\* block of the document, stack container, definition list that is
\* positive, in minutes; <<>> (null) when there is none
extractCalendarAbsenceData(dlg) ==
  IF dlg.active.n > 0
    THEN Def(RMul(dlg.active, Num(STANDARD_WORKDAY_MINUTES)))
  ELSE IF dlg.structured.n > 0
    THEN Def(RMul(dlg.structured, Num(STANDARD_WORKDAY_MINUTES)))
  ELSE IF dlg.stack.n > 0
    THEN Def(RMul(dlg.stack, Num(STANDARD_WORKDAY_MINUTES)))
  ELSE IF dlg.list.n > 0
    THEN Def(RMul(dlg.list, Num(STANDARD_WORKDAY_MINUTES)))
  ELSE Undef

\* lines 312-318 of extractFutureLeaveDays: the result for extractedMinutes
FormattedDays(extractedMinutes) ==
  IF IsDef(extractedMinutes) /\ Val(extractedMinutes).n > 0
  THEN toFixed1(RDivInt(Val(extractedMinutes), STANDARD_WORKDAY_MINUTES))
  ELSE ZeroStr

\* lines 310-318 of extractFutureLeaveDays
ExtractedDays(dlg) == FormattedDays(extractCalendarAbsenceData(dlg))

\* a save without the guard of lines 731-736
SaveWritesAlways(s, value) == TRUE

\* saveExtractedDaysOff(value): TRUE when the value is written
SaveWrites(s, value) == ~(~isCalendarExtractionPage(s.loc) /\ value = ZeroStr)

saveExtractedDaysOff(s, value) ==
  IF SaveWrites(s, value) THEN [s EXCEPT !.ext = Def(value)] ELSE s

\* saveLastExtractionDate()
saveLastExtractionDate(s) == [s EXCEPT !.date = Def(s.today)]

\* watching: the selectors whose wait has an observer connected
NewRun ==
  [pc |-> "wait1", result |-> Undef, threw |-> FALSE, valueSaved |-> FALSE,
   dateSaved |-> FALSE, day |-> 0, savedAt |-> "", openerAtEnd |-> "none",
   watching |-> {}]

\* a wait that never disconnects its observer
UnwatchSkipped(run, selector) == run

\* observer.disconnect() of the wait for selector (lines 386 and 398)
Unwatch(run, selector) == [run EXCEPT !.watching = @ \ {selector}]

\* lines 265-271 of handleCalendarPage: what follows the await when
\* extractFutureLeaveDays returned extractedDays, for run i
AfterExtract(s, i, extractedDays) ==
  [saveLastExtractionDate(saveExtractedDaysOff(s, extractedDays)) EXCEPT
     !.runs[i] = [@ EXCEPT !.pc = "notifying",
                           !.result = Def(extractedDays),
                           !.valueSaved = SaveWrites(s, extractedDays),
                           !.dateSaved = TRUE,
                           !.day = s.today,
                           !.savedAt = s.loc]]

\* lines 272-279 of handleCalendarPage: the catch block, for run i
AfterThrow(s, i) ==
  IF isCalendarExtractionPage(s.loc)
  THEN [saveExtractedDaysOff(s, ZeroStr) EXCEPT
          !.runs[i] = [@ EXCEPT !.pc = "notifying",
                                !.result = Def(ZeroStr),
                                !.threw = TRUE,
                                !.valueSaved = SaveWrites(s, ZeroStr),
                                !.day = s.today,
                                !.savedAt = s.loc]]
  ELSE [s EXCEPT
          !.runs[i] = [@ EXCEPT !.pc = "ended",
                                !.threw = TRUE,
                                !.day = s.today,
                                !.openerAtEnd = s.opener]]

\* the selector a waiting run watches for matches the document
Matches(dlg, pc) ==
  \/ pc = "wait1" /\ dlg.kind = "new"
  \/ pc = "wait2" /\ dlg.kind = "old"

\* waitForElement(selector) when called for run i (pc names the selector):
\* resolved at once when the element is there (the settle delay starts),
\* else the observer is connected to document.body, which throws when the
\* document has no body
WaitForElement(s, i, pc, throws) ==
  IF Matches(s.dlg, pc) THEN [s EXCEPT !.runs[i] = [@ EXCEPT !.pc = "settle"]]
  ELSE IF throws THEN AfterThrow(s, i)
  ELSE [s EXCEPT !.runs[i] = [@ EXCEPT !.pc = pc, !.watching = @ \cup {pc}]]

\* handleCalendarPage(): a new run; the URL check of line 243 holds at both
\* call sites
handleCalendarPage(s, throws) ==
  IF ~isCalendarExtractionPage(s.loc) THEN s
  ELSE WaitForElement([s EXCEPT !.runs = Append(@, NewRun)],
                      Len(s.runs) + 1, "wait1", throws)

\* the callbacks of the observers of waitForElement after a mutation of the
\* document: a wait whose selector now matches resolves with the element
WaitCallbacks(s) ==
  [s EXCEPT !.runs = [i \in 1..Len(s.runs) |->
     IF Matches(s.dlg, s.runs[i].pc)
     THEN [Unwatch(s.runs[i], s.runs[i].pc) EXCEPT !.pc = "settle"]
     ELSE s.runs[i]]]

\* lines 397-400 of waitForElement: the observer of the wait of run i is
\* disconnected and the wait resolves with null
TimedOut(s, i) == [s EXCEPT !.runs[i] = Unwatch(@, @.pc)]

\* the 5 s timeout of a wait: the next selector, or the result "0"
RunTimeoutStep(s, i, throws) ==
  IF s.runs[i].pc = "wait1"
  THEN WaitForElement(TimedOut(s, i), i, "wait2", throws)
  ELSE AfterExtract(TimedOut(s, i), i, ZeroStr)

\* after the 500 ms settle delay
RunSettleStep(s, i) == AfterExtract(s, i, ExtractedDays(s.dlg))

\* the 2 s timer of scheduleCalendarPageClose: notifyParentWindow, then
\* window.close() when there is an opener that is open
RunNotifyStep(s, i) ==
  LET value == Val(s.runs[i].result)
  IN  IF s.opener = "open"
      THEN [s EXCEPT !.posted = Append(@, [type |-> MessageType,
                                           extractedDays |-> Def(value)]),
                     !.open = FALSE,
                     !.runs[i] = [@ EXCEPT !.pc = "closed",
                                          !.openerAtEnd = s.opener]]
      ELSE [s EXCEPT !.runs[i] = [@ EXCEPT !.pc = "leftOpen",
                                          !.openerAtEnd = s.opener]]

\* ------------------------------------------------------------------------
\* Page-role detector
\* ------------------------------------------------------------------------
\* lines 184-189 of handleUrlChange
AttendanceRole(s, wasAttendancePage, nowAttendancePage) ==
  IF ~wasAttendancePage /\ nowAttendancePage THEN startObservingPage(s)
  ELSE IF wasAttendancePage /\ ~nowAttendancePage
    THEN resetState(stopObservingPage(s))
  ELSE s

\* lines 191-203 of handleUrlChange
ExtractionRole(s, wasCalendarExtractionPage, nowCalendarExtractionPage, throws) ==
  IF ~wasCalendarExtractionPage /\ nowCalendarExtractionPage
  THEN handleCalendarPage(s, throws)
  ELSE s

\* a routine that re-classifies the location on every call
handleUrlChangeUnguarded(s, throws) ==
  ExtractionRole(
    AttendanceRole([s EXCEPT !.cur = s.loc], FALSE, isAttendancePage(s.loc)),
    FALSE, isCalendarExtractionPage(s.loc), throws)

\* handleUrlChange(), called by the 1 s interval and by popstate
handleUrlChange(s, throws) ==
  IF s.cur = s.loc THEN s
  ELSE
    ExtractionRole(
      AttendanceRole([s EXCEPT !.cur = s.loc],
                     isAttendancePage(s.cur), isAttendancePage(s.loc)),
      isCalendarExtractionPage(s.cur), isCalendarExtractionPage(s.loc),
      throws)

\* setupUrlMonitoring(): the popstate listener is an arrow function made
\* here, the interval is kept in this.urlCheckInterval
setupUrlMonitoring(s) ==
  [s EXCEPT !.pop = @ \cup {"arrow"}, !.ivl = TRUE]

\* lines 32-39 of init
Monitored(s) == setupUrlMonitoring([s EXCEPT !.cur = s.loc])

\* init(), from the state the constructor sets
init(s, throws) ==
  IF isAttendancePage(s.loc)
    THEN startObservingPage(Monitored(s))
  ELSE IF isCalendarExtractionPage(s.loc)
    THEN handleCalendarPage(Monitored(s), throws)
  ELSE Monitored(s)

\* destroy(): removeEventListener is given this.handleUrlChange, which is
\* not the function that was registered
destroy(s) ==
  [stopObservingPage(s) EXCEPT !.ivl = FALSE,
                               !.pop = @ \ {"handleUrlChange"}]

\* ------------------------------------------------------------------------
\* Bounds and inputs of the model
\* ------------------------------------------------------------------------
\* the clock stops at this day
MaxDay == 3

\* navigation to the extraction URL stops after this many runs
MaxRuns == 2

\* what the host page shows in the overtime widget
HostTexts == {<<"2", "h">>, <<"-", "1", "4", "m">>}

\* what the user types into the input
InputStrings == {<<"0", ".", "1">>, <<"1", ",", "5">>, <<"a", "b", "c">>}

\* the day the script starts on, in a first use
FirstDay == 2

\* values an extraction run produces
ExtractedValues == {ZeroStr, <<"1", ".", "0">>}

\* values the extraction tab persists while this tab shows the control
SavedValues == {<<"1", ".", "0">>}

\* event.data of a window message
Messages ==
  {Undef,
   Def([type |-> "other", extractedDays |-> Def(<<"1", ".", "0">>)]),
   Def([type |-> MessageType, extractedDays |-> Undef])}
  \cup {Def([type |-> MessageType, extractedDays |-> Def(v)]) :
          v \in ExtractedValues}

\* a document of the calendar page: the dialog it shows (kind) and the days
\* each step of the extraction chain totals in it
Document(kind, active, structured, stack, list) ==
  [kind |-> kind, active |-> active, structured |-> structured,
   stack |-> stack, list |-> list]

NoDialog == Document("none", Num(0), Num(0), Num(0), Num(0))

\* the calendar page: no dialog; the new dialog with a structured block of
\* 2.5 days; the old drawer with legacy data; the new dialog with no data
Dialogs ==
  {NoDialog,
   Document("new", Rat(5, 2), Rat(5, 2), Num(0), Num(0)),
   Document("old", Num(0), Num(0), Num(3), Num(4)),
   Document("new", Num(0), Num(0), Num(0), Num(0))}

HostWidget(text) ==
  [script |-> FALSE, text |-> text, was |-> Undef, color |-> "host",
   adjusted |-> NaN]

\* ------------------------------------------------------------------------
\* Initial states: the state after construction (constructor, then init())
\* ------------------------------------------------------------------------
Constructed(loc, wid, lnk, sched, rws, day, ext, date, dlg, opn) ==
  [loc |-> loc, cur |-> "", obs |-> FALSE, oh |-> Undef, om |-> Undef,
   w |-> Undef, wid |-> wid, ctl |-> Undef, link |-> lnk, sched |-> sched,
   rows |-> rws, today |-> day, ext |-> ext, date |-> date, tm |-> FALSE,
   runs |-> <<>>, dlg |-> dlg, opener |-> opn, open |-> TRUE,
   posted |-> <<>>, ivl |-> FALSE, pop |-> {}]

\* the record kept in last: the handler, its argument, and whether the
\* handler injected the control
Op(name, arg, inj) == [op |-> name, arg |-> arg, injected |-> inj]

\* the environment the script starts in: a first use (no schedule widget, no
\* timesheet row, empty storage), or a later use (38 h on 5 work days, one
\* approved day off dated day 1, and the value and date saved on day 1)
Scenarios ==
  {[sched |-> Undef, rows |-> <<>>, today |-> FirstDay,
    ext |-> Undef, date |-> Undef],
   [sched |-> Def([weekly |-> 2280, workdays |-> 5]),
    rows |-> <<[time |-> "date", day |-> 1, dayCell |-> TRUE, icon |-> "green"]>>,
    today |-> FirstDay + 1,
    ext |-> Def(<<"2", ".", "5">>), date |-> Def(1)]}

InitAtt ==
  \E loc \in {"att1", "other"},
     wid \in {Undef} \cup {Def(HostWidget(t)) : t \in HostTexts},
     lnk \in {0, 1}, sc \in Scenarios :
    /\ Is(init(Constructed(loc, wid, lnk, sc.sched, sc.rows, sc.today,
                            sc.ext, sc.date, NoDialog, "none"), FALSE))
    /\ last = Op("init", Undef, IsDef(control))

\* ------------------------------------------------------------------------
\* Actions
\* ------------------------------------------------------------------------
\* the observer callbacks that follow a mutation of the document by the host
AfterMutation(s) == ObserverCallback(WaitCallbacks(s))

\* the program moves to state s by the handler called name
Step(name, arg, s) ==
  /\ Becomes(s)
  /\ last' = Op(name, arg, ~IsDef(control) /\ IsDef(s.ctl))

\* the user or the host application navigates within the page (no reload)
Navigate(u) ==
  /\ windowOpen
  /\ u # location
  /\ isCalendarExtractionPage(u) => Len(runs) < MaxRuns
  /\ Step("other", Undef, [Cur EXCEPT !.loc = u])

\* whether document.body is missing when a wait connects its observer: a
\* choice of the environment where a scrape run is about to start a wait
BodyMissing(starts) == IF starts THEN BOOLEAN ELSE {FALSE}

\* how a call of handleUrlChange is recorded in last: made while the
\* location is the recorded URL, or after a change of the location
UrlCall == IF currentUrl = location THEN "sameUrl" ELSE "newUrl"

\* the 1 s interval of setupUrlMonitoring
Poll ==
  /\ windowOpen
  /\ urlCheckInterval
  /\ \E throws \in BodyMissing(currentUrl # location
                                /\ isCalendarExtractionPage(location)) :
       Step(UrlCall, Undef, handleUrlChange(Cur, throws))

\* the popstate listener of setupUrlMonitoring
Popstate ==
  /\ windowOpen
  /\ popstateListeners # {}
  /\ \E throws \in BodyMissing(currentUrl # location
                                /\ isCalendarExtractionPage(location)) :
       Step(UrlCall, Undef, handleUrlChange(Cur, throws))

\* the host page renders (or re-renders) the overtime widget
HostRenderWidget(text) ==
  /\ windowOpen
  /\ Step("other", Undef, AfterMutation([Cur EXCEPT !.wid = Def(HostWidget(text))]))

\* the host page renders the overtime widget, which was not there, with m
\* minutes written the way formatTimeDisplay writes them
HostRenderMinutes(m) ==
  /\ windowOpen
  /\ ~IsDef(widget)
  /\ Step("render", Def(m),
          AfterMutation([Cur EXCEPT
            !.wid = Def(HostWidget(formatTimeDisplay(Num(m))))]))

\* the host page removes the overtime widget
HostRemoveWidget ==
  /\ windowOpen
  /\ IsDef(widget)
  /\ Step("other", Undef, AfterMutation([Cur EXCEPT !.wid = Undef]))

\* the host page removes the injected control (it re-renders the parent)
HostRemoveControl ==
  /\ windowOpen
  /\ IsDef(control)
  /\ Step("other", Undef, AfterMutation([Cur EXCEPT !.ctl = Undef]))

\* the host page renders n containers with the overtime link
HostRenderLink(n) ==
  /\ windowOpen
  /\ link = 0
  /\ Step("other", Undef, AfterMutation([Cur EXCEPT !.link = n]))

\* the host page changes the details dialog of the calendar page
HostRenderDialog(d) ==
  /\ windowOpen
  /\ d # dialog
  /\ Step("other", Undef, AfterMutation([Cur EXCEPT !.dlg = d]))

\* the user edits the input: the "input" event
UserEdit(v) ==
  /\ windowOpen
  /\ IsDef(control)
  /\ v # Val(control).value
  /\ Step("edit", Undef, handleInputChange(
       [Cur EXCEPT !.ctl = Def([Val(control) EXCEPT !.value = v])]))

\* the input loses the focus: the "blur" event
UserBlur ==
  /\ windowOpen
  /\ IsDef(control)
  /\ Step("other", Undef, validateInput(Cur))

\* the user clicks the revert button, which is clickable when displayed
UserRevert ==
  /\ windowOpen
  /\ IsDef(control)
  /\ Val(control).back
  /\ Step("revert", Undef, handleBackButtonClick(Cur))

\* the user clicks the re-extract button: handleReloadButtonClick opens the
\* calendar in a new tab and changes nothing in this one
UserReload ==
  /\ windowOpen
  /\ IsDef(control)
  /\ Step("other", Undef, Cur)

\* a window message arrives
Message(data) ==
  /\ windowOpen
  /\ Step("message", data, OnMessageEvent(Cur, data))

\* the deferred refreshes of the re-extract button (the timers of 50 ms and
\* 100 ms, which do the same recomputation, as one step)
BorderTimer ==
  /\ windowOpen
  /\ timers
  /\ Step("other", Undef, updateReloadButtonBorder([Cur EXCEPT !.tm = FALSE]))

\* the tab opened by the re-extract button runs this script on the extraction
\* URL and persists its result and its date (lines 265-268) in the storage
\* the two tabs share
ExtractionTabSaves(v) ==
  /\ windowOpen
  /\ IsDef(control)
  /\ Step("other", Undef, saveLastExtractionDate([Cur EXCEPT !.ext = Def(v)]))

\* midnight (UTC)
AdvanceDay ==
  /\ windowOpen
  /\ today < MaxDay
  /\ Step("other", Undef, [Cur EXCEPT !.today = @ + 1])

\* the 5 s timeout of the wait of run i
RunTimeout(i) ==
  /\ windowOpen
  /\ i \in 1..Len(runs)
  /\ runs[i].pc \in {"wait1", "wait2"}
  /\ \E throws \in BodyMissing(runs[i].pc = "wait1") :
       Step("timeout", Undef, RunTimeoutStep(Cur, i, throws))

\* the 500 ms settle delay of run i ends
RunSettle(i) ==
  /\ windowOpen
  /\ i \in 1..Len(runs)
  /\ runs[i].pc = "settle"
  /\ Step("settle", Undef, RunSettleStep(Cur, i))

\* the 2 s timer of run i fires
RunNotify(i) ==
  /\ windowOpen
  /\ i \in 1..Len(runs)
  /\ runs[i].pc = "notifying"
  /\ Step("notify", Undef, RunNotifyStep(Cur, i))

\* the opener is closed by the user
OpenerCloses ==
  /\ windowOpen
  /\ opener = "open"
  /\ Step("other", Undef, [Cur EXCEPT !.opener = "closed"])

\* beforeunload fires (the page may stay: the unload can be cancelled, and
\* a download or an external-protocol link fires the event without
\* unloading): window.personioAdjuster.destroy()
BeforeUnload ==
  /\ windowOpen
  /\ Step("destroy", Undef, destroy(Cur))

\* ------------------------------------------------------------------------
\* The attendance page
\* ------------------------------------------------------------------------
AttUrls == {"att1", "other"}

NextAtt ==
  \/ \E u \in AttUrls : Navigate(u)
  \/ Poll
  \/ Popstate
  \/ \E t \in HostTexts : HostRenderWidget(t)
  \/ HostRemoveWidget
  \/ HostRemoveControl
  \/ HostRenderLink(1)
  \/ \E v \in InputStrings : UserEdit(v)
  \/ UserBlur
  \/ UserRevert
  \/ UserReload
  \/ \E d \in Messages : Message(d)
  \/ BorderTimer
  \/ \E v \in SavedValues : ExtractionTabSaves(v)

SpecAtt == InitAtt /\ [][NextAtt]_vars

\* ------------------------------------------------------------------------
\* The extraction page
\* ------------------------------------------------------------------------
ScrapeUrls == {"ext", "cal", "other"}

InitScrape ==
  \E loc \in ScrapeUrls, sc \in Scenarios, dlg \in {NoDialog},
     opn \in {"none", "open"}, throws \in BOOLEAN :
    /\ Is(init(Constructed(loc, Undef, 0, sc.sched, sc.rows, sc.today,
                            sc.ext, sc.date, dlg, opn), throws))
    /\ last = Op("init", Undef, FALSE)

NextScrape ==
  \/ \E u \in ScrapeUrls : Navigate(u)
  \/ Poll
  \/ Popstate
  \/ \E d \in Dialogs : HostRenderDialog(d)
  \/ \E i \in 1..MaxRuns : RunTimeout(i)
  \/ \E i \in 1..MaxRuns : RunSettle(i)
  \/ \E i \in 1..MaxRuns : RunNotify(i)
  \/ OpenerCloses
  \/ AdvanceDay

SpecScrape == InitScrape /\ [][NextScrape]_vars

\* ------------------------------------------------------------------------
\* The extraction chain: one scrape run over each document
\* ------------------------------------------------------------------------
\* the documents of the calendar page: the new dialog or the old drawer is
\* shown, and each step of the chain totals nothing or a number of days of
\* its own
ChainDocuments ==
  {Document(kind, active, structured, stack, list) :
     kind \in {"new", "old"},
     active \in {Num(0), Rat(9, 4)},
     structured \in {Num(0), Rat(5, 2)},
     stack \in {Num(0), Num(3)},
     list \in {Num(0), Num(4)}}

InitChain ==
  \E sc \in Scenarios, dlg \in ChainDocuments, opn \in {"none", "open"} :
    /\ Is(init(Constructed("ext", Undef, 0, sc.sched, sc.rows, sc.today,
                            sc.ext, sc.date, dlg, opn), FALSE))
    /\ last = Op("init", Undef, FALSE)

NextChain ==
  \/ \E i \in 1..MaxRuns : RunTimeout(i)
  \/ \E i \in 1..MaxRuns : RunSettle(i)
  \/ \E i \in 1..MaxRuns : RunNotify(i)

SpecChain == InitChain /\ [][NextChain]_vars

\* ------------------------------------------------------------------------
\* The timesheet: the attendance page over each timesheet
\* ------------------------------------------------------------------------
\* a timesheet row: what its first time[datetime] element holds ("none" when
\* there is no such element, "clock" for a time of day, "date" for a full
\* date, which is day), whether that element lies in a day cell, and the
\* time-off icon of the day cell ("none", "empty" for an icon without a
\* circle, "circle" for a circle that is not green, "green")
Row(time, day, dayCell, icon) ==
  [time |-> time, day |-> day, dayCell |-> dayCell, icon |-> icon]

TimesheetRows ==
  {Row("date", d, TRUE, "green") : d \in 0..MaxDay}
  \cup {Row("date", 1, TRUE, icon) : icon \in {"circle", "empty", "none"}}
  \cup {Row("date", 1, FALSE, "green"),
        Row("clock", 1, TRUE, "green"),
        Row("none", 1, TRUE, "green")}

\* the timesheets: at most two rows
Timesheets ==
  {<<>>} \cup {<<r>> : r \in TimesheetRows}
         \cup {<<r1, r2>> : r1 \in TimesheetRows, r2 \in TimesheetRows}

InitRows ==
  \E rws \in Timesheets, day \in FirstDay..MaxDay,
     date \in {Undef} \cup {Def(d) : d \in 0..(FirstDay - 1)} :
    /\ Is(init(Constructed("att1", Def(HostWidget(<<"2", "h">>)), 1, Undef,
                            rws, day, Def(<<"2", ".", "5">>), date, NoDialog,
                            "none"), FALSE))
    /\ last = Op("init", Undef, IsDef(control))

NextRows ==
  \/ \E v \in InputStrings : UserEdit(v)
  \/ UserRevert
  \/ AdvanceDay

SpecRows == InitRows /\ [][NextRows]_vars

\* ------------------------------------------------------------------------
\* The rendering of whole minutes: the attendance page over each baseline
\* ------------------------------------------------------------------------
\* what the host page shows in the overtime widget
FormatTexts ==
  {<<"0", "h">>, <<"7", "h", " ", "4", "2", "m">>, <<"7", "h">>,
   <<"4", "2", "m">>, <<"-", "7", "h", " ", "4", "2", "m">>,
   <<"-", "4", "2", "m">>, <<"8", "h">>, <<"1", "h", " ", "5", "9", "m">>,
   <<"-", "8", "h">>, <<"1", "6", "h", " ", "1", "m">>,
   <<"1", "2", "0", "h">>, <<"4", "h", " ", "1", "m">>}

\* what the user types into the input: whole and half days
FormatInputs ==
  {<<"0">>, <<"1">>, <<"0", ",", "5">>, <<"2">>, <<"1", "5">>}

InitFormat ==
  \E t \in FormatTexts :
    /\ Is(init(Constructed("att1", Def(HostWidget(t)), 1, Undef, <<>>,
                            FirstDay, Undef, Undef, NoDialog, "none"), FALSE))
    /\ last = Op("init", Undef, IsDef(control))

NextFormat ==
  \/ \E v \in FormatInputs : UserEdit(v)
  \/ UserRevert
  \/ \E t \in FormatTexts : HostRenderWidget(t)

SpecFormat == InitFormat /\ [][NextFormat]_vars


\* ------------------------------------------------------------------------
\* Properties of the attendance page (checked under SpecAtt)
\* ------------------------------------------------------------------------
\* the cached baseline, in minutes
BaselineMinutes == Num(Val(originalHours) * 60 + Val(originalMinutes))

\* the days the input string stands for: its decimal value with '.' or ','
\* as separator; nothing when it is empty or not a number
InputDays(value) ==
  LET v == ReplaceFirstComma(value)
  IN  IF v = <<>> \/ IsNaN(parseFloat(v)) THEN Num(0) ELSE parseFloat(v)

\* the widget shows a figure the script rendered from a cached baseline
AdjustedFigureShown ==
  /\ IsDef(control)
  /\ IsDef(widget)
  /\ Val(widget).script
  /\ IsDef(originalHours)
  /\ IsDef(originalMinutes)

NonNegativeInput ==
  /\ IsDef(control)
  /\ isValidNumber(ReplaceFirstComma(Val(control).value))
  /\ InputDays(Val(control).value).n >= 0

\* the sign the rendered string shows: -1 for a '-' prefix, 0 for "0h",
\* 1 otherwise
ShownSign(text) ==
  IF text = <<"0", "h">> THEN 0 ELSE IF text[1] = "-" THEN -1 ELSE 1

SignOf(x) == IF x.n > 0 THEN 1 ELSE IF x.n < 0 THEN -1 ELSE 0

\* C2: for a non-negative decimal input d, the adjusted minutes are the
\* baseline minus round(d x w), an integer number of minutes, and the sign
\* of the rendered string is the sign of the adjusted minutes.
C2_RoundedMinutes ==
  (AdjustedFigureShown /\ NonNegativeInput /\ IsDef(workTimePerDayInMinutes)) =>
    /\ Val(widget).adjusted =
         RSub(BaselineMinutes,
              Num(RRound(RMul(InputDays(Val(control).value),
                              Val(workTimePerDayInMinutes)))))
    /\ ShownSign(Val(widget).text) = SignOf(Val(widget).adjusted)

\* the last step was an extraction-result message that the script handled
\* with a value
MessageHandled ==
  /\ last.op = "message"
  /\ IsDef(last.arg)
  /\ Val(last.arg).type = "personioCalendarExtraction"
  /\ IsDef(Val(last.arg).extractedDays)
  /\ IsDef(control)

\* the persisted extracted-days-off as a number, 0 when nothing is persisted
PersistedDays ==
  IF IsDef(extractedDaysOff) THEN parseFloat(Val(extractedDaysOff)) ELSE Num(0)

\* the days counted as taken since the last extraction
TakenSince ==
  IF IsDef(lastExtractionDate)
  THEN Cardinality({i \in 1..Len(rows) :
         /\ rows[i].time = "date"
         /\ rows[i].dayCell
         /\ rows[i].icon \in {"green", "circle"}
         /\ rows[i].day + 1 > Val(lastExtractionDate)
         /\ rows[i].day + 1 < today})
  ELSE 0

\* max(0, x - taken) rounded to tenths, as a number
ClampedTenths(x, taken) ==
  LET y == RSub(x, Num(taken))
  IN  IF y.n < 0 THEN Num(0) ELSE Rat(RRound(RMul(y, Num(10))), 10)

\* a string of digits, a point, and exactly one digit
OneDecimal(str) ==
  /\ Len(str) >= 3
  /\ str[Len(str) - 1] = "."
  /\ \A i \in 1..Len(str) : i # Len(str) - 1 => IsDigit(str[i])

\* the extracted value the script seeded the input from in the last step
SeedSource ==
  IF MessageHandled THEN parseFloat(Val(Val(last.arg).extractedDays))
  ELSE PersistedDays

\* C3: when the script itself has just set the input value (injection of the
\* control, revert click, extraction-result message), the value is written
\* with exactly one decimal and is max(0, extracted - timeOffAdjustment),
\* extracted being the persisted value or, for a message, the received one.
C3_SeededValue ==
  (IsDef(control) /\ (last.injected \/ last.op = "revert" \/ MessageHandled)) =>
    /\ OneDecimal(Val(control).value)
    /\ parseFloat(Val(control).value) = ClampedTenths(SeedSource, TakenSince)

\* C3 witness: a message brought a value smaller than the days taken since
\* the last extraction, so that the maximum with 0 decided the value
C3_Witness ==
  /\ MessageHandled
  /\ RLess(SeedSource, Num(TakenSince))
  /\ Val(control).value = <<"0", ".", "0">>

\* the seeded value of the persisted extracted-days-off, as a string
SeededFromStorage == toFixed1(ClampedTenths(PersistedDays, TakenSince))

\* C4: after an input edit, a revert click or an extraction result, the
\* revert button is visible exactly when the input string differs from the
\* seeded value max(0, persisted - timeOffAdjustment) with one decimal.
C4_RevertVisibility ==
  (IsDef(control) /\ (last.op \in {"edit", "revert"} \/ MessageHandled)) =>
    (Val(control).back <=> Val(control).value # SeededFromStorage)

\* the message lacks the data or the exact type tag
Ignorable(data) ==
  ~IsDef(data) \/ Val(data).type # "personioCalendarExtraction"

\* C10: a window message without data, or whose type is not exactly
\* "personioCalendarExtraction", changes nothing: the input value, the revert
\* button, the re-extract button and its pending refreshes, the rendered
\* overtime, the cached baseline and the work minutes per day stay as they
\* were.
C10_ForeignMessageIgnored ==
  [][(last'.op = "message" /\ Ignorable(last'.arg)) =>
       UNCHANGED <<control, widget, originalHours, originalMinutes,
                   workTimePerDayInMinutes, timers, observer, currentUrl,
                   extractedDaysOff, lastExtractionDate>>]_vars

\* C10 witness: a foreign message that carries a value has arrived while the
\* control shows a value the user typed, which a handled message would replace
C10_Witness ==
  /\ last.op = "message"
  /\ IsDef(last.arg)
  /\ Val(last.arg).type # "personioCalendarExtraction"
  /\ IsDef(Val(last.arg).extractedDays)
  /\ IsDef(control)
  /\ Val(control).back
  /\ IsDef(widget)

\* ------------------------------------------------------------------------
\* Properties of the extraction page (checked under SpecScrape)
\* ------------------------------------------------------------------------
\* run i has produced its result
Finished(i) == IsDef(runs[i].result)

\* C5: a save of the scrape result "0" made while the URL is not the
\* extraction URL leaves the persisted extracted-days-off as it was.
C5_ZeroNotSavedOffPage ==
  [][\A i \in 1..Len(runs) :
       (/\ ~IsDef(runs[i].result)
        /\ runs'[i].result = Def(<<"0">>)
        /\ location # "ext")
       => extractedDaysOff' = extractedDaysOff]_vars

\* C5 witness: a run ended with "0" away from the extraction URL and the
\* non-zero value persisted before is still there
C5_Witness ==
  \E i \in 1..Len(runs) :
    /\ runs[i].result = Def(<<"0">>)
    /\ runs[i].savedAt # "ext"
    /\ runs[i].savedAt # ""
    /\ extractedDaysOff = Def(<<"2", ".", "5">>)

\* C6: the persisted extracted-days-off is written only while the script is
\* on the extraction URL; a run whose page has left that URL during its
\* waits does not write it.
C6_WrittenOnlyOnExtractionUrl ==
  \A i \in 1..Len(runs) : runs[i].valueSaved => runs[i].savedAt = "ext"

\* C7: after a scrape run, last-extraction-date has been set to the run's
\* date if and only if the run's result was stored (stated for the runs that
\* raised no exception).
C7_DateIffValue ==
  \A i \in 1..Len(runs) :
    (Finished(i) /\ ~runs[i].threw) =>
      (runs[i].dateSaved <=> runs[i].valueSaved)

\* run i has nothing left to do: no wait, no delay and no timer is pending
Ended(i) == runs[i].pc \notin {"wait1", "wait2", "settle", "notifying"}

\* C8: a run ends Closed, having posted its result to an opener that was
\* open, or LeftOpen, having posted nothing because there was no open opener.
C8_EndsClosedOrLeftOpen ==
  \A i \in 1..Len(runs) :
    Ended(i) =>
      \/ /\ runs[i].pc = "closed"
         /\ runs[i].openerAtEnd = "open"
         /\ ~windowOpen
      \/ /\ runs[i].pc = "leftOpen"
         /\ runs[i].openerAtEnd # "open"

\* C9: a run in which an exception was raised is treated as a "0" result and
\* takes the path of a normal run: "0" is persisted, today's date is
\* persisted as last-extraction-date, and the notification is scheduled.
C9_ExceptionAsZeroResult ==
  \A i \in 1..Len(runs) :
    runs[i].threw =>
      /\ runs[i].result = Def(<<"0">>)
      /\ runs[i].valueSaved
      /\ runs[i].dateSaved
      /\ runs[i].pc \in {"notifying", "closed", "leftOpen"}

\* ------------------------------------------------------------------------
\* Properties of the extraction chain (checked under SpecChain)
\* ------------------------------------------------------------------------
\* the totals of the steps of the chain, in the order of the chain: the
\* structured balance-statement block (of the active tab, then the first of
\* the document), the legacy container, the generic definition list
ChainSteps(dlg) == <<dlg.active, dlg.structured, dlg.stack, dlg.list>>

\* the total of the first step that yields a positive total, if any
FirstPositive(steps) ==
  IF \E k \in 1..Len(steps) : steps[k].n > 0
  THEN Def(steps[CHOOSE k \in 1..Len(steps) :
                   steps[k].n > 0 /\ \A j \in 1..(k - 1) : steps[j].n <= 0])
  ELSE Undef

\* run i has scraped the document (it raised no exception)
Scraped(i) == Finished(i) /\ ~runs[i].threw

\* C11: the result of a scrape is the total of the first step of the chain
\* (structured block, legacy container, definition list) that yields a
\* positive total, written with one decimal, and it is "0" when no step
\* yields a positive total.
C11_FirstPositiveWins ==
  \A i \in 1..Len(runs) :
    Scraped(i) =>
      IF IsDef(FirstPositive(ChainSteps(dialog)))
      THEN /\ OneDecimal(Val(runs[i].result))
           /\ parseFloat(Val(runs[i].result)) =
                Rat(RRound(RMul(Val(FirstPositive(ChainSteps(dialog))),
                                Num(10))), 10)
      ELSE runs[i].result = Def(<<"0">>)

\* C11 witness: a structured block and both legacy structures are present
\* with positive totals, and the scrape returned the structured total
C11_Witness ==
  \E i \in 1..Len(runs) :
    /\ Scraped(i)
    /\ dialog.active.n = 0
    /\ dialog.structured = Rat(5, 2)
    /\ dialog.stack.n > 0
    /\ dialog.list.n > 0
    /\ runs[i].result = Def(<<"2", ".", "5">>)

\* ------------------------------------------------------------------------
\* Properties of the time-off adjustment (checked under SpecRows)
\* ------------------------------------------------------------------------
\* the day cell of the row carries the approved-time-off marker: a time-off
\* icon with a circle
Marked(row) == row.dayCell /\ row.icon \in {"green", "circle"}

\* the date of the row's first dated time marker, shifted forward by one day
ShiftedDay(row) == row.day + 1

\* the script has just seeded the input from the storage and the timesheet
Seeded == IsDef(control) /\ (last.injected \/ last.op = "revert")

CountsAlone(row) == calculateTimeOffAdjustment([Cur EXCEPT !.rows = <<row>>]) = 1

WholeMinutesText(m) ==
  LET a == IF m < 0 THEN -m ELSE m
      H == a \div 60
      M == a % 60
  IN  IF m = 0 THEN <<"0", "h">>
      ELSE (IF m < 0 THEN <<"-">> ELSE <<>>)
           \o (IF H > 0 THEN NatToStr(H) \o <<"h">> ELSE <<>>)
           \o (IF H > 0 /\ M > 0 THEN <<" ">> ELSE <<>>)
           \o (IF M > 0 THEN NatToStr(M) \o <<"m">> ELSE <<>>)

\* C15: formatTimeDisplay renders a whole number of minutes m as [-]Hh Mm
\* with H = floor(|m|/60) and M = |m| mod 60, omits a unit whose value is
\* zero, prefixes '-' exactly when m < 0 and renders "0h" for 0; the five
\* scenarios of the specification come out as written.
C15_WholeMinutesRendered ==
  /\ (AdjustedFigureShown /\ Val(widget).adjusted.d = 1) =>
       Val(widget).text = WholeMinutesText(Val(widget).adjusted.n)
  /\ formatTimeDisplay(Num(0)) = <<"0", "h">>
  /\ formatTimeDisplay(Num(462)) = <<"7", "h", " ", "4", "2", "m">>
  /\ formatTimeDisplay(Num(420)) = <<"7", "h">>
  /\ formatTimeDisplay(Num(42)) = <<"4", "2", "m">>
  /\ formatTimeDisplay(Num(-462)) = <<"-", "7", "h", " ", "4", "2", "m">>

\* C15 witness: an edit has rendered a negative whole number of minutes
\* below one hour (7h 42m less one day of 480 minutes)
C15_Witness ==
  /\ AdjustedFigureShown
  /\ last.op = "edit"
  /\ Val(widget).adjusted = Num(-18)
  /\ Val(widget).text = <<"-", "1", "8", "m">>

\* ------------------------------------------------------------------------
\* Properties of the page-role detector
\* ------------------------------------------------------------------------
\* run i is in progress: a wait, a delay or a timer of it is pending
InProgress(i) == runs[i].pc \in {"wait1", "wait2", "settle", "notifying"}

\* C16 (checked under SpecScrape): at most one scrape run is started per
\* page load, and no two scrape runs are in progress at the same time.
C16_SingleRun ==
  /\ Len(runs) <= 1
  /\ Cardinality({i \in 1..Len(runs) : InProgress(i)}) <= 1

\* C17 (checked under SpecAtt): a call of handleUrlChange made while the
\* location equals the recorded URL changes nothing: no observer is started
\* or stopped, no cached value is reset, no scrape is started, and the DOM and
\* the storage stay as they were.
C17_SameUrlNoChange ==
  [][last'.op = "sameUrl" =>
       UNCHANGED <<location, currentUrl, observer, originalHours,
                   originalMinutes, workTimePerDayInMinutes, widget, control,
                   link, schedule, rows, today, extractedDaysOff,
                   lastExtractionDate, timers, runs, dialog, opener,
                   windowOpen, posted, urlCheckInterval,
                   popstateListeners>>]_vars

\* C17 witness: handleUrlChange was called with the URL unchanged on the
\* attendance page after the injection, the observer being disconnected and
\* the caches set (a re-classification would start the observer again)
C17_Witness ==
  /\ last.op = "sameUrl"
  /\ isAttendancePage(currentUrl)
  /\ IsDef(control)
  /\ ~observer
  /\ IsDef(originalHours)
  /\ IsDef(workTimePerDayInMinutes)

\* C18 (checked under SpecAtt): whenever the recorded current URL is not an
\* attendance URL, the attendance observer is disconnected and the cached
\* baseline hours, baseline minutes and work minutes per day are all unset.
C18_ClearedOffAttendance ==
  ~isAttendancePage(currentUrl) =>
    /\ ~observer
    /\ ~IsDef(originalHours)
    /\ ~IsDef(originalMinutes)
    /\ ~IsDef(workTimePerDayInMinutes)

\* ------------------------------------------------------------------------
\* Injection of the control on the attendance page
\* ------------------------------------------------------------------------
\* the largest number of containers with the overtime link the host renders
MaxLinks == 2

InjectUrls == {"att1", "att2", "other"}

InjectInputs == {<<"1", ",", "5">>}

InitInject ==
  \E loc \in {"att1", "other"},
     wid \in {Undef} \cup {Def(HostWidget(t)) : t \in HostTexts},
     lnk \in 0..MaxLinks, sc \in Scenarios :
    /\ Is(init(Constructed(loc, wid, lnk, sc.sched, sc.rows, sc.today,
                            sc.ext, sc.date, NoDialog, "none"), FALSE))
    /\ last = Op("init", Undef, IsDef(control))

NextInject ==
  \/ \E u \in InjectUrls : Navigate(u)
  \/ Poll
  \/ Popstate
  \/ \E t \in HostTexts : HostRenderWidget(t)
  \/ HostRemoveWidget
  \/ HostRemoveControl
  \/ \E n \in 1..MaxLinks : HostRenderLink(n)
  \/ \E v \in InjectInputs : UserEdit(v)

SpecInject == InitInject /\ [][NextInject]_vars

\* C19 (checked under SpecInject): in every reachable state the document
\* holds at most one injected control (one input with id subtractTime),
\* however many containers with the overtime link the host has rendered.
C19_AtMostOneControl == IsDef(control) => Val(control).copies <= 1

\* C20 (checked under SpecInject): the attendance observer is stopped on an
\* attendance page only by a step after which the control is in the
\* document; a sighting of the widget without the link leaves it connected.
C20_StoppedOnlyAfterInjection ==
  [][(observer /\ ~observer' /\ isAttendancePage(currentUrl'))
       => IsDef(control')]_vars

\* ------------------------------------------------------------------------
\* The attendance page after the injection
\* ------------------------------------------------------------------------
WatchUrls == {"att1", "att2"}

\* the script has started on an attendance URL that shows the widget and one
\* container with the link: init() has injected the control
InitWatch ==
  \E t \in HostTexts, sc \in Scenarios :
    /\ Is(init(Constructed("att1", Def(HostWidget(t)), 1, sc.sched, sc.rows,
                            sc.today, sc.ext, sc.date, NoDialog, "none"),
               FALSE))
    /\ last = Op("init", Undef, IsDef(control))

NextWatch ==
  \/ \E u \in WatchUrls : Navigate(u)
  \/ Poll
  \/ \E t \in HostTexts : HostRenderWidget(t)
  \/ HostRemoveControl
  \/ \E v \in InjectInputs : UserEdit(v)

\* the timer of setInterval keeps firing: the poll is taken whenever it would
\* change the state
SpecWatch == InitWatch /\ [][NextWatch]_vars /\ WF_vars(Poll)

\* the attendance page is shown with the overtime widget and the link the
\* control is anchored to
Shown ==
  /\ isAttendancePage(location)
  /\ isAttendancePage(currentUrl)
  /\ IsDef(widget)
  /\ link > 0

\* the host has put a figure of its own into the widget while the control is
\* in the document
HostFigure == Shown /\ IsDef(control) /\ ~Val(widget).script

\* C14 (checked under SpecWatch): whenever the attendance page shows a
\* figure rendered by the host in the overtime widget while the control is in
\* the document, then eventually the widget shows the adjusted overtime
\* rendered by the script (or the page has stopped showing the widget, the
\* link or the control).
C14_HostChangeFollowed ==
  HostFigure ~> (~Shown \/ ~IsDef(control) \/ Val(widget).script)

\* ------------------------------------------------------------------------
\* The bounded waits of a scrape run (checked under SpecScrape)
\* ------------------------------------------------------------------------
Waits == {"wait1", "wait2"}

\* the observers of the waits of run i: the one of the wait in progress and
\* no other
WaitObserver(i) ==
  runs[i].watching = (IF runs[i].pc \in Waits THEN {runs[i].pc} ELSE {})

WaitObservers == \A i \in 1..Len(runs) : WaitObserver(i)

\* the timeout of the wait of run i fires and no exception is raised
TimesOut(i) ==
  /\ last'.op = "timeout"
  /\ runs[i].pc \in Waits
  /\ runs'[i] # runs[i]
  /\ ~runs'[i].threw

\* C21 (checked under SpecScrape): a wait whose selector has not matched ends
\* at its timeout: the first wait is followed by the second (which resolves
\* at once when its selector matches by then), the second by the result "0"
\* with no further run and no further wait; the second selector is watched
\* only once the first wait has ended, and a wait that has resolved leaves no
\* observer connected (stated for the runs that raise no exception).
C21_TimeoutYieldsZero ==
  [][/\ WaitObservers
     /\ WaitObservers'
     /\ \A i \in 1..Len(runs) :
          TimesOut(i) =>
            /\ Len(runs') = Len(runs)
            /\ runs[i].pc = "wait1" =>
                 /\ runs'[i].pc \in {"wait2", "settle"}
                 /\ runs'[i].pc = "settle" <=> dialog.kind = "old"
            /\ runs[i].pc = "wait2" =>
                 /\ runs'[i].pc = "notifying"
                 /\ runs'[i].result = Def(ZeroStr)]_vars

\* the second wait of a run has timed out and the run has the result "0"
C21_Witness ==
  /\ last.op = "timeout"
  /\ \E i \in 1..Len(runs) :
       /\ runs[i].pc = "notifying"
       /\ runs[i].result = Def(ZeroStr)
       /\ ~runs[i].threw
       /\ runs[i].watching = {}
       /\ dialog.kind = "none"

\* the result of run i is among the messages posted to the opener
Posted(i) ==
  \E k \in 1..Len(posted) : posted[k].extractedDays = runs[i].result

\* C22 (checked under SpecScrape): a run that has closed the page has
\* persisted its value and the date and has posted its result before, and
\* right after the post the storage holds the value that was posted (stated
\* for the runs that raised no exception).
C22_PersistPostClose ==
  \A i \in 1..Len(runs) :
    (runs[i].pc = "closed" /\ ~runs[i].threw) =>
      /\ runs[i].valueSaved
      /\ runs[i].dateSaved
      /\ Posted(i)
      /\ last.op = "notify" => extractedDaysOff = runs[i].result

\* ------------------------------------------------------------------------
\* Teardown
\* ------------------------------------------------------------------------
InitUnload ==
  \E loc \in AttUrls,
     wid \in {Undef} \cup {Def(HostWidget(t)) : t \in HostTexts},
     lnk \in {0, 1}, sc \in Scenarios :
    /\ Is(init(Constructed(loc, wid, lnk, sc.sched, sc.rows, sc.today,
                            sc.ext, sc.date, NoDialog, "none"), FALSE))
    /\ last = Op("init", Undef, IsDef(control))

NextUnload ==
  \/ \E u \in AttUrls : Navigate(u)
  \/ Poll
  \/ Popstate
  \/ \E t \in HostTexts : HostRenderWidget(t)
  \/ HostRenderLink(1)
  \/ BeforeUnload

SpecUnload == InitUnload /\ [][NextUnload]_vars

\* destroy() has run: init sets the interval and only destroy clears it
Destroyed == ~urlCheckInterval

\* C23 (checked under SpecUnload): once destroy() has run, no step
\* re-classifies the page: the recorded URL stays what it is and the
\* attendance observer stays disconnected.
C23_NoReclassification ==
  [][Destroyed => (currentUrl' = currentUrl /\ ~observer /\ ~observer')]_vars

\* ------------------------------------------------------------------------
\* Formatting and parsing of whole minutes
\* ------------------------------------------------------------------------
\* the widget shows between -MaxMinutes and MaxMinutes minutes
MaxMinutes == 130

InitRound ==
  \E lnk \in {0, 1} :
    /\ Is(init(Constructed("att1", Undef, lnk, Undef, <<>>, FirstDay, Undef,
                            Undef, NoDialog, "none"), FALSE))
    /\ last = Op("init", Undef, FALSE)

NextRound ==
  \/ \E m \in -MaxMinutes..MaxMinutes : HostRenderMinutes(m)
  \/ \E u \in AttUrls : Navigate(u)
  \/ Poll

SpecRound == InitRound /\ [][NextRound]_vars

\* the observer callback that follows the step parses the widget: the
\* observer is connected and there is no control
Sighting == observer /\ ~IsDef(control)

\* C24 (checked under SpecRound): when the script parses a widget text that
\* is formatTimeDisplay(m) for a whole number of minutes m, the baseline it
\* stores has hours * 60 + minutes = m.
C24_ParseInvertsFormat ==
  [][(last'.op = "render" /\ Sighting) =>
       Val(originalHours') * 60 + Val(originalMinutes') = Val(last'.arg)]_vars

\* C24 witness: the text of -90 minutes ("-1h 30m") has been parsed into the
\* baseline -1 h and -30 min
C24_Witness ==
  /\ last.op = "render"
  /\ last.arg = Def(-90)
  /\ ~observer
  /\ originalHours = Def(-1)
  /\ originalMinutes = Def(-30)

\* the host's own figure as far as the widget w still shows it: the text the
\* host rendered, the "(was ...)" annotation of the script, or the figure of
\* the script when nothing is subtracted from it
HostValue(w) == IF w.script /\ IsDef(w.was) THEN Val(w.was) ELSE w.text

\* C25 (checked under SpecAtt): the cached baseline is the host page's own
\* confirmed-overtime value: a step of the script (not a change of the
\* document by the host) that sets the unset baseline stores the host's
\* figure, not what the script's own rendering parses to.
C25_BaselineFromHost ==
  [][(/\ last'.op # "other"
      /\ ~IsDef(originalHours)
      /\ IsDef(originalHours')) =>
       [hours |-> Val(originalHours'), minutes |-> Val(originalMinutes')]
         = storeOriginalValues(HostValue(Val(widget)))]_vars

====
